---- MODULE Spec2Model ----
(***************************************************************************)
(* hass-tesla-ble: process start-up (main.rs), configuration loading       *)
(* (config.rs), the MQTT client and its background event loop (mqtt.rs)    *)
(* and the BLE adapter (bluetooth.rs).                                     *)
(*                                                                         *)
(* main is one sequential task; the event loop spawned by MqttClient::new  *)
(* is a second task that interleaves with it.  The options file            *)
(* /config/options.json belongs to the environment and may be rewritten    *)
(* or removed at any moment.                                               *)
(***************************************************************************)
EXTENDS Integers, Sequences, FiniteSets, TLC

\* ---------------------------------------------------------------- bounds
\* Largest number of eventloop.poll() results the model follows.
MaxPolls == 2

\* ------------------------------------------------------- program constants
default_port == 1883
default_discovery_prefix == "homeassistant"

\* ------------------------------------------------------------ input sets
Absent == "<absent>"          \* a key that is not in the JSON document
None == <<>>                  \* a binding that has not been initialised
Some(x) == <<x>>              \* an initialised binding

Hosts == {"broker1", "broker2"}
Prefixes == {"ha"}
AdapterNames == {"hci0", "hci1"}
Vins == {"VIN1", "VIN2"}

\* The JSON documents the environment may put at config_path.  host is a
\* required key, port and discovery_prefix are optional; the documents
\* considered leave port out, so it takes its default.
Keys == {"host", "port", "discovery_prefix", "adapter", "vin"}

KeyValues(k) ==
    CASE k = "host" -> Hosts \cup {Absent}
      [] k = "port" -> {None}
      [] k = "discovery_prefix" -> Prefixes \cup {Absent}
      [] k = "adapter" -> AdapterNames
      [] k = "vin" -> Vins

RawFiles ==
    [readable : {TRUE},
     host : KeyValues("host"),
     port : KeyValues("port"),
     discovery_prefix : KeyValues("discovery_prefix"),
     adapter : KeyValues("adapter"),
     vin : KeyValues("vin")]

\* No file at config_path (fs::read_to_string fails).
Missing ==
    [readable |-> FALSE, host |-> Absent, port |-> None,
     discovery_prefix |-> Absent, adapter |-> Absent, vin |-> Absent]

FileContents == RawFiles \cup {Missing}

VARIABLES
    pc,           \* position of main
    file,         \* contents of /config/options.json
    config,       \* main's binding `config`
    mqtt_client,  \* main's binding `mqtt_client`
    ble_adapter,  \* main's binding `ble_adapter`
    task,         \* the spawned event-loop task
    events,       \* results eventloop.poll() has returned, oldest first
    log,          \* lines written through info!, oldest first
    attempted     \* start-up steps main has called, oldest first

vars == <<pc, file, config, mqtt_client, ble_adapter, task, events, log, attempted>>

\* ------------------------------------------------------------- config.rs
\* serde_json::from_str::<Config>: a missing required key is an error, a
\* missing optional key takes its serde default.
Parses(raw) == raw.readable /\ raw.host # Absent

Deserialize(raw) ==
    [mqtt |-> [host |-> raw.host,
               port |-> IF raw.port = None THEN default_port ELSE raw.port[1],
               discovery_prefix |->
                   IF raw.discovery_prefix = Absent
                   THEN default_discovery_prefix
                   ELSE raw.discovery_prefix],
     bluetooth |-> [adapter |-> raw.adapter],
     vehicle |-> [vin |-> raw.vin]]

\* ---------------------------------------------------------------- mqtt.rs
\* host() as it would be if it re-read the options file on every call.
host_rereads_file(self) ==
    IF file.readable /\ file.host # Absent THEN file.host ELSE self[1].config.host

host(self) == self[1].config.host

discovery_prefix(self) == self[1].config.discovery_prefix

\* ----------------------------------------------------------- bluetooth.rs
name(self) == self[1].name

\* ---------------------------------------------------------------- helpers
Line(m, a) == [msg |-> m, arg |-> a]

\* A panic in main, or main returning, drops the runtime and with it the
\* spawned task.
DropRuntime == IF task = "running" THEN "cancelled" ELSE task

Init ==
    /\ pc = "load_config"
    /\ file \in FileContents
    /\ config = None
    /\ mqtt_client = None
    /\ ble_adapter = None
    /\ task = "none"
    /\ events = <<>>
    /\ log = <<Line("Starting Tesla BLE Local Control for Home Assistant", "")>>
    /\ attempted = <<>>

\* ----------------------------------------------------------- environment
\* One write to config_path: the file is removed, created, or one of its
\* keys is edited.
EnvWriteFile ==
    /\ \/ /\ file.readable
          /\ file' = Missing
       \/ /\ ~file.readable
          /\ file' \in RawFiles
       \/ /\ file.readable
          /\ \E k \in Keys : \E v \in KeyValues(k) \ {file[k]} :
                file' = [file EXCEPT ![k] = v]
    /\ UNCHANGED <<pc, config, mqtt_client, ble_adapter, task, events, log, attempted>>

\* ---------------------------------------------------------------- main.rs
LoadConfigOk ==
    /\ pc = "load_config"
    /\ Parses(file)
    /\ config' = Some(Deserialize(file))
    /\ attempted' = Append(attempted, "load_config")
    /\ log' = log \o <<Line("Configuration loaded successfully", ""),
                       Line("Vehicle VIN", Deserialize(file).vehicle.vin)>>
    /\ pc' = "mqtt_new"
    /\ UNCHANGED <<file, mqtt_client, ble_adapter, task, events>>

LoadConfigFail ==
    /\ pc = "load_config"
    /\ ~Parses(file)
    /\ attempted' = Append(attempted, "load_config")
    /\ pc' = "panicked"
    /\ task' = DropRuntime
    /\ UNCHANGED <<file, config, mqtt_client, ble_adapter, events, log>>

\* MqttClient::new(config.mqtt): never returns Err; spawns the event loop
\* and returns without awaiting anything.
MqttNew ==
    /\ pc = "mqtt_new"
    /\ attempted' = Append(attempted, "mqtt_new")
    /\ log' = Append(log, Line("Connecting to MQTT broker",
                               <<config[1].mqtt.host, config[1].mqtt.port>>))
    /\ task' = "running"
    /\ mqtt_client' = Some([config |-> config[1].mqtt])
    /\ pc' = "mqtt_report"
    /\ UNCHANGED <<file, config, ble_adapter, events>>

ReportMqtt ==
    /\ pc = "mqtt_report"
    /\ log' = Append(log, Line("MQTT client connected to", host(mqtt_client)))
    /\ pc' = "ble_new"
    /\ UNCHANGED <<file, config, mqtt_client, ble_adapter, task, events, attempted>>

\* BleAdapter::new(config.bluetooth.adapter)
BleNewOk ==
    /\ pc = "ble_new"
    /\ attempted' = Append(attempted, "ble_new")
    /\ log' = Append(log, Line("Using Bluetooth adapter", config[1].bluetooth.adapter))
    /\ ble_adapter' = Some([name |-> config[1].bluetooth.adapter])
    /\ pc' = "ble_report"
    /\ UNCHANGED <<file, config, mqtt_client, task, events>>

\* bluer::Session::new or session.adapter fails: `?` before the first info!.
BleNewFailSession ==
    /\ pc = "ble_new"
    /\ attempted' = Append(attempted, "ble_new")
    /\ pc' = "panicked"
    /\ task' = DropRuntime
    /\ UNCHANGED <<file, config, mqtt_client, ble_adapter, events, log>>

\* set_powered's error as it would be if main ignored it and carried on.
BleNewFailPower_ignored ==
    /\ pc = "ble_new"
    /\ attempted' = Append(attempted, "ble_new")
    /\ log' = Append(log, Line("Using Bluetooth adapter", config[1].bluetooth.adapter))
    /\ pc' = "setup_complete"
    /\ UNCHANGED <<file, config, mqtt_client, ble_adapter, task, events>>

\* adapter.set_powered(true) fails: `?` after the first info!.
BleNewFailPower ==
    /\ pc = "ble_new"
    /\ attempted' = Append(attempted, "ble_new")
    /\ log' = Append(log, Line("Using Bluetooth adapter", config[1].bluetooth.adapter))
    /\ pc' = "panicked"
    /\ task' = DropRuntime
    /\ UNCHANGED <<file, config, mqtt_client, ble_adapter, events>>

ReportBle ==
    /\ pc = "ble_report"
    /\ log' = Append(log, Line("BLE adapter initialized", name(ble_adapter)))
    /\ pc' = "setup_complete"
    /\ UNCHANGED <<file, config, mqtt_client, ble_adapter, task, events, attempted>>

SetupComplete ==
    /\ pc = "setup_complete"
    /\ log' = Append(log, Line("Setup complete. Waiting for vehicle...", ""))
    /\ pc' = "waiting"
    /\ UNCHANGED <<file, config, mqtt_client, ble_adapter, task, events, attempted>>

\* signal::ctrl_c().await returns Ok(()).
CtrlC ==
    /\ pc = "waiting"
    /\ log' = Append(log, Line("Shutting down...", ""))
    /\ pc' = "exited"
    /\ task' = DropRuntime
    /\ UNCHANGED <<file, config, mqtt_client, ble_adapter, events, attempted>>

\* signal::ctrl_c().await returns Err: `?` makes main return it.
CtrlCError ==
    /\ pc = "waiting"
    /\ pc' = "failed"
    /\ task' = DropRuntime
    /\ UNCHANGED <<file, config, mqtt_client, ble_adapter, events, log, attempted>>

\* ------------------------------------------- mqtt.rs, the spawned event loop
PollConnAck ==
    /\ task = "running"
    /\ Len(events) < MaxPolls
    /\ events' = Append(events, "ConnAck")
    /\ log' = Append(log, Line("MQTT Connected", ""))
    /\ UNCHANGED <<pc, file, config, mqtt_client, ble_adapter, task, attempted>>

PollOther ==
    /\ task = "running"
    /\ Len(events) < MaxPolls
    /\ events' = Append(events, "Other")
    /\ UNCHANGED <<pc, file, config, mqtt_client, ble_adapter, task, log, attempted>>

\* The Err arm as it would be with `continue` in place of `break`.
PollErr_continue ==
    /\ task = "running"
    /\ Len(events) < MaxPolls
    /\ events' = Append(events, "Err")
    /\ UNCHANGED <<pc, file, config, mqtt_client, ble_adapter, task, log, attempted>>

PollErr ==
    /\ task = "running"
    /\ Len(events) < MaxPolls
    /\ events' = Append(events, "Err")
    /\ task' = "exited"
    /\ UNCHANGED <<pc, file, config, mqtt_client, ble_adapter, log, attempted>>

Next ==
    \/ EnvWriteFile
    \/ LoadConfigOk
    \/ LoadConfigFail
    \/ MqttNew
    \/ ReportMqtt
    \/ BleNewOk
    \/ BleNewFailSession
    \/ BleNewFailPower
    \/ ReportBle
    \/ SetupComplete
    \/ CtrlC
    \/ CtrlCError
    \/ PollConnAck
    \/ PollOther
    \/ PollErr

Spec == Init /\ [][Next]_vars

\* ------------------------------------------------------------ properties
Count(seq, x) == Cardinality({i \in DOMAIN seq : seq[i] = x})

Logged(m) == \E i \in DOMAIN log : log[i].msg = m

StartupSteps == <<"load_config", "mqtt_new", "ble_new">>

IsPrefix(s, t) == Len(s) <= Len(t) /\ \A i \in DOMAIN s : s[i] = t[i]

\* C7: load_config is called exactly once, before any MQTT or BLE step, and
\* the values taken from it (MqttClient::host, the discovery prefix,
\* BleAdapter::name, the VIN) never change afterwards, whatever happens to
\* the options file.
ConfigLoadedOnceFirst ==
    /\ Count(attempted, "load_config") <= 1
    /\ (attempted # <<>> => attempted[1] = "load_config")
    /\ (task # "none" \/ mqtt_client # None \/ ble_adapter # None
          => Count(attempted, "load_config") = 1 /\ config # None)
    /\ (mqtt_client # None =>
          /\ host(mqtt_client) = config[1].mqtt.host
          /\ discovery_prefix(mqtt_client) = config[1].mqtt.discovery_prefix)
    /\ (ble_adapter # None => name(ble_adapter) = config[1].bluetooth.adapter)

ConfigValuesKept ==
    /\ (config # None => config' = config)
    /\ (mqtt_client # None =>
          /\ mqtt_client' # None
          /\ host(mqtt_client)' = host(mqtt_client)
          /\ discovery_prefix(mqtt_client)' = discovery_prefix(mqtt_client))
    /\ (ble_adapter # None =>
          /\ ble_adapter' # None
          /\ name(ble_adapter)' = name(ble_adapter))

ConfigIsStartupSnapshot == []ConfigLoadedOnceFirst /\ [][ConfigValuesKept]_vars

\* Every configuration value in use differs from what the file now holds.
FileChangedAfterSnapshot ==
    /\ pc = "waiting"
    /\ file.readable
    /\ file.host # host(mqtt_client)
    /\ file.discovery_prefix # discovery_prefix(mqtt_client)
    /\ file.adapter # name(ble_adapter)
    /\ file.vin # config[1].vehicle.vin

\* C8: the start-up steps run in the order load_config, MqttClient::new,
\* BleAdapter::new; "Setup complete" is reached only with all three done;
\* after a panic no further step is attempted and nothing more is logged.
StartupOrdered ==
    /\ IsPrefix(attempted, StartupSteps)
    /\ (mqtt_client # None => config # None)
    /\ (ble_adapter # None => mqtt_client # None)
    /\ (pc = "waiting" \/ Logged("Setup complete. Waiting for vehicle...")
          => /\ attempted = StartupSteps
             /\ config # None
             /\ mqtt_client # None
             /\ ble_adapter # None)
    /\ (pc = "panicked" =>
          \/ attempted = <<"load_config">> /\ config = None /\ mqtt_client = None
          \/ attempted = StartupSteps /\ ble_adapter = None)

PanicIsFinal ==
    pc = "panicked" =>
        /\ pc' = "panicked"
        /\ UNCHANGED <<config, mqtt_client, ble_adapter, task, events, log, attempted>>

StartupOrderedFailStop == []StartupOrdered /\ [][PanicIsFinal]_vars

\* BleAdapter::new failed after configuration and MQTT start-up succeeded.
PanickedInBleStep ==
    /\ pc = "panicked"
    /\ attempted = StartupSteps
    /\ mqtt_client # None
    /\ Logged("Using Bluetooth adapter")

\* C9: once main has logged "MQTT client connected to <host>", the event
\* loop has received the broker's ConnAck.
ConnectedReportImpliesConnAck ==
    Logged("MQTT client connected to") =>
        \E j \in DOMAIN events : events[j] = "ConnAck"

\* C10: the event loop ends on its first poll error and never polls again;
\* the error changes nothing in main; an Ok result keeps the loop running.
EventLoopState ==
    /\ (task = "running" => \A i \in DOMAIN events : events[i] # "Err")
    /\ (task = "exited" =>
          /\ events # <<>>
          /\ events[Len(events)] = "Err"
          /\ Count(events, "Err") = 1
          /\ mqtt_client # None)
    /\ (events # <<>> => task # "none")

EventLoopStep ==
    /\ (task = "exited" => task' = "exited" /\ events' = events)
    /\ (task = "running" /\ task' = "exited" =>
          /\ events' = Append(events, "Err")
          /\ UNCHANGED <<pc, config, mqtt_client, ble_adapter, log, attempted>>)
    /\ (events' # events =>
          /\ task = "running"
          /\ Len(events') = Len(events) + 1
          /\ (events'[Len(events')] # "Err" => task' = "running"))

EventLoopStopsOnFirstError == []EventLoopState /\ [][EventLoopStep]_vars

\* The loop has ended on an error while main waits, with polls to spare.
LoopEndedWhileMainWaits ==
    /\ task = "exited"
    /\ pc = "waiting"
    /\ Len(events) < MaxPolls
====
